---- MODULE Spec2Model ----
(***************************************************************************)
(* kio.Pipeline.Execute (kyaml/kio/kio.go) as a state machine, together    *)
(* with the ContainerFilter stage exercised by the filters package tests.  *)
(*                                                                         *)
(* One Execute run walks three phases (read, filter, write).  Each call of *)
(* a Reader, Filter or Writer is one step, so that the order of the calls, *)
(* their arguments and the returned error are all observable.              *)
(***************************************************************************)
EXTENDS Integers, Sequences, FiniteSets, TLC

\* ------------------------------------------------------------------ bounds
MaxInputs  == 2      \* len(p.Inputs)  is at most this
MaxFilters == 3      \* len(p.Filters) is at most this (in-process filters)
MaxStages  == 2      \* len(p.Filters) is at most this (ContainerFilter stages)
MaxOutputs == 2      \* len(p.Outputs) is at most this
MaxRuns    == 2      \* Execute calls on one Pipeline value
MaxFewFilters == 2   \* len(p.Filters) is at most this (runs followed to their end)
MaxFewOutputs == 1   \* len(p.Outputs) is at most this (runs followed to their end)

\* ------------------------------------------------------------ error values
\* A Go error value.  Nil is the nil error; every component produces an
\* error value of its own, so that "the same error" can be told apart.
Nil == [op |-> "nil", pos |-> 0]

ErrOf(op, pos) == [op |-> op, pos |-> pos]

\* ---------------------------------------------------------------- documents
\* A *yaml.RNode: name, kind and the kyaml.kustomize.dev/kio/index
\* annotation ("" when the annotation is absent).
Deployment == [name |-> "deployment-foo", kind |-> "Deployment", index |-> ""]

Service == [name |-> "service-foo", kind |-> "Service", index |-> ""]

\* a document that already carries an index annotation from an earlier run
Stale == [name |-> "stale-foo", kind |-> "Deployment", index |-> "1"]

Config == "foo"

\* ------------------------------------------------------------- components
\* Reader: what Read() returns.  ResourceNodeSlice.Read returns the slice
\* itself and a nil error; other Readers may fail.
ResourceNodeSlice(o) == [nodes |-> o, fails |-> FALSE]

FailingReader(o) == [nodes |-> o, fails |-> TRUE]

ReaderChoices ==
    { ResourceNodeSlice(<< >>),
      ResourceNodeSlice(<<Deployment, Service>>),
      ResourceNodeSlice(<<Stale>>),
      FailingReader(<<Deployment>>) }

Read(r, pos) ==
    [nodes |-> r.nodes, err |-> IF r.fails THEN ErrOf("Read", pos) ELSE Nil]

\* Writer: what Write(nodes) returns.
WriterChoices == { [fails |-> FALSE], [fails |-> TRUE] }

Write(w, pos, o) == IF w.fails THEN ErrOf("Write", pos) ELSE Nil

\* ------------------------------------------------- Resource-List codec
Digits == <<"0", "1", "2", "3", "4", "5", "6", "7", "8", "9">>

\* base-10 string encoding of a non-negative integer
RECURSIVE Itoa(_)
Itoa(n) == IF n < 10 THEN Digits[n + 1]
           ELSE Itoa(n \div 10) \o Digits[(n % 10) + 1]

\* variant: an index annotation already present is kept
StampIfAbsent(input) ==
    [k \in 1..Len(input) |->
        IF input[k].index = "" THEN [input[k] EXCEPT !.index = Itoa(k - 1)]
        ELSE input[k]]

\* the index annotation is set on every item to its zero-based position,
\* overwriting whatever value the item carried
StampIndex(input) ==
    [k \in 1..Len(input) |-> [input[k] EXCEPT !.index = Itoa(k - 1)]]

\* one item of the envelope: the annotations block is present only when the
\* item has an index annotation
ItemText(d) ==
    <<"-", d.kind, d.name>>
        \o (IF d.index = "" THEN << >> ELSE <<"index:", d.index>>)

RECURSIVE ItemsText(_)
ItemsText(items) ==
    IF items = << >> THEN << >>
    ELSE ItemText(Head(items)) \o ItemsText(Tail(items))

\* the envelope text written to the subprocess's standard input
Encode(items, cfg) ==
    <<"kind: ResourceList", "items:">> \o ItemsText(items)
        \o <<"functionConfig:", cfg>>

WellFormed(text) ==
    /\ Len(text) >= 2
    /\ text[1] = "kind: ResourceList"
    /\ text[2] = "items:"

RECURSIVE ParseItems(_)
ParseItems(toks) ==
    IF Len(toks) < 3 \/ Head(toks) # "-" THEN << >>
    ELSE IF Len(toks) >= 5 /\ toks[4] = "index:"
         THEN <<[kind |-> toks[2], name |-> toks[3], index |-> toks[5]]>>
                  \o ParseItems(SubSeq(toks, 6, Len(toks)))
         ELSE <<[kind |-> toks[2], name |-> toks[3], index |-> ""]>>
                  \o ParseItems(SubSeq(toks, 4, Len(toks)))

\* variant: the decoder removes the index annotation from the items
DecodeStripIndex(text) ==
    [k \in 1..Len(ParseItems(SubSeq(text, 3, Len(text)))) |->
        [ParseItems(SubSeq(text, 3, Len(text)))[k] EXCEPT !.index = ""]]

\* variant: the decoder renumbers the index annotations of the items
DecodeRenumber(text) == StampIndex(ParseItems(SubSeq(text, 3, Len(text))))

\* the items of an envelope text, in the order present in the text
Decode(text) == ParseItems(SubSeq(text, 3, Len(text)))

\* --------------------------------------------------- external functions
\* What the sandboxed subprocess does with its standard input.
FnChoices == {"cat", "sed", "reverse", "drop", "dup", "exit1", "garbage", "nostart"}

\* all but the first item (nothing when there is none)
Rest(s) == SubSeq(s, 2, Len(s))

Reverse(s) == [k \in 1..Len(s) |-> s[Len(s) + 1 - k]]

\* sed s/Deployment/StatefulSet/g
Sed(text) ==
    [k \in 1..Len(text) |-> IF text[k] = "Deployment" THEN "StatefulSet" ELSE text[k]]

RunFn(fn, stdin) ==
    LET items == Decode(stdin)
        emit(out) == [started |-> TRUE, exit |-> 0, stdout |-> Encode(out, Config)]
    IN  CASE fn = "cat"     -> [started |-> TRUE, exit |-> 0, stdout |-> stdin]
          [] fn = "sed"     -> [started |-> TRUE, exit |-> 0, stdout |-> Sed(stdin)]
          [] fn = "reverse" -> emit(Reverse(items))
          [] fn = "drop"    -> emit(Rest(items))
          [] fn = "dup"     -> emit(SubSeq(items, Len(items), Len(items)) \o items)
          [] fn = "exit1"   -> [started |-> TRUE, exit |-> 1, stdout |-> << >>]
          [] fn = "garbage" -> [started |-> TRUE, exit |-> 0, stdout |-> <<"not yaml">>]
          [] OTHER          -> [started |-> FALSE, exit |-> 1, stdout |-> << >>]

\* ------------------------------------------------------------ filters
\* the envelope a ContainerFilter sends for the collection handed to it
Stdin(input) == Encode(StampIndex(input), Config)

ContainerFilter(fn, pos, input) ==
    LET p == RunFn(fn, Stdin(input))
    IN  IF ~p.started THEN [nodes |-> << >>, err |-> ErrOf("spawn", pos)]
        ELSE IF p.exit # 0 THEN [nodes |-> << >>, err |-> ErrOf("exit", pos)]
        ELSE IF ~WellFormed(p.stdout) THEN [nodes |-> << >>, err |-> ErrOf("decode", pos)]
        ELSE [nodes |-> Decode(p.stdout), err |-> Nil]

\* in-process filters (FilterFunc values)
FuncChoices == {"keep", "tail", "empty", "fail", "failKeep"}

FilterFunc(fn, pos, input) ==
    CASE fn = "keep"     -> [nodes |-> input, err |-> Nil]
      [] fn = "tail"     -> [nodes |-> Rest(input), err |-> Nil]
      [] fn = "empty"    -> [nodes |-> << >>, err |-> Nil]
      [] fn = "fail"     -> [nodes |-> << >>, err |-> ErrOf("Filter", pos)]
      [] OTHER           -> [nodes |-> input, err |-> ErrOf("Filter", pos)]

FilterChoices == [impl : {"FilterFunc"}, fn : FuncChoices]

StageChoices == [impl : {"ContainerFilter"}, fn : FnChoices]

Filter(f, pos, input) ==
    IF f.impl = "ContainerFilter" THEN ContainerFilter(f.fn, pos, input)
    ELSE FilterFunc(f.fn, pos, input)

\* sequences over S of length at most n
SeqUpTo(S, n) == UNION { [1..m -> S] : m \in 0..n }

\* ------------------------------------------------------------ the state
VARIABLES
    Inputs,     \* p.Inputs
    Filters,    \* p.Filters
    Outputs,    \* p.Outputs
    pc,         \* position in Execute: "read", "filter", "write", "done"
    i,          \* index of the range loop of the current phase (1-based)
    result,     \* var result []*yaml.RNode
    err,        \* var err error
    ret,        \* the value Execute returned (Nil until it returns an error)
    calls,      \* the component calls of this run, in order
    sent,       \* the envelopes ContainerFilter stages wrote to a subprocess
    run,        \* number of the current Execute call on this Pipeline
    prevCalls,  \* the component calls of the previous run
    prevRet,    \* what the previous run returned
    node,       \* the document GetContainerName is called with
    containerName,  \* what GetContainerName returned
    environ,    \* the host environment: the variables os.Environ() lists
    instance,   \* the ContainerFilter getCommand is called on
    cmd         \* the *exec.Cmd getCommand returned

vars == <<Inputs, Filters, Outputs, pc, i, result, err, ret, calls, sent,
          run, prevCalls, prevRet, node, containerName, environ, instance, cmd>>

\* the state of the filters package's functions, which Execute never touches
helpers == <<node, containerName, environ, instance, cmd>>

pipeline == <<Inputs, Filters, Outputs>>

history == <<run, prevCalls, prevRet>>

\* ------------------------------------------------- decisions of Execute
\* Each decision is preceded by the variants of it that the properties
\* below are tested against.

KeepResult(old) == old

\* var result []*yaml.RNode: every run starts from the nil slice
FreshResult(old) == << >>

PrependNodes(res, nodes) == nodes \o res

\* result = append(result, nodes...)
AppendNodes(res, nodes) == res \o nodes

NeverNoInput(res) == FALSE

\* if len(result) == 0 { return nil }
NoInput(res) == Len(res) = 0

ShadowedResult(res, out) == res

\* result, err = op.Filter(result): the filter's result replaces result
FilterResult(res, out) == out

StopsOnEmptyOnly(res, e) == Len(res) = 0

StopsOnErrorOnly(res, e) == e # Nil

\* if len(result) == 0 || err != nil { return err }
FilterStops(res, e) == Len(res) = 0 \/ e # Nil

SwallowError(e) == Nil

\* return err (after a filter)
FilterReturn(e) == e

NeverStops(e) == FALSE

\* if err := o.Write(result); err != nil { return err }
WriteStops(e) == e # Nil

SameIndex(k) == k

\* the range loops visit the elements one after the other, each once
NextIndex(k) == k + 1

\* if err != nil { return err } (after a Read)
ReadStops(e) == e # Nil

Call(op, pos, arg, out, e) ==
    [op |-> op, pos |-> pos, arg |-> arg, out |-> out, err |-> e]

\* values of the helpers' state while no helper is being called
NoNode == [apiVersion |-> << >>, hasContainer |-> FALSE, container |-> << >>]

NoInstance == [Image |-> "", args |-> << >>]

NoCmd == [Args |-> << >>, Env |-> << >>]

\* ------------------------------------------------------------ the actions
Start ==
    /\ pc = "read"
    /\ i = 1
    /\ result = << >>
    /\ err = Nil
    /\ ret = Nil
    /\ calls = << >>
    /\ sent = << >>
    /\ run = 1
    /\ prevCalls = << >>
    /\ prevRet = Nil
    /\ node = NoNode
    /\ containerName = << >>
    /\ environ = << >>
    /\ instance = NoInstance
    /\ cmd = NoCmd

\* a Pipeline of in-process readers, filters and writers
Init ==
    /\ Inputs \in SeqUpTo(ReaderChoices, MaxInputs)
    /\ Filters \in SeqUpTo(FilterChoices, MaxFilters)
    /\ Outputs \in SeqUpTo(WriterChoices, MaxOutputs)
    /\ Start

\* a shorter Pipeline of in-process components, for the specifications
\* that follow whole behaviours
InitFew ==
    /\ Inputs \in SeqUpTo(ReaderChoices, MaxInputs)
    /\ Filters \in SeqUpTo(FilterChoices, MaxFewFilters)
    /\ Outputs \in SeqUpTo(WriterChoices, MaxFewOutputs)
    /\ Start

\* a Pipeline whose filters are ContainerFilter stages
InitFn ==
    /\ Inputs \in SeqUpTo(ReaderChoices, MaxInputs)
    /\ Filters \in SeqUpTo(StageChoices, MaxStages)
    /\ Outputs \in SeqUpTo(WriterChoices, MaxOutputs)
    /\ Start

\* one iteration of: for _, i := range p.Inputs
ReadInput ==
    /\ pc = "read"
    /\ i <= Len(Inputs)
    /\ LET r == Read(Inputs[i], i)
       IN  /\ calls' = Append(calls, Call("Read", i, << >>, r.nodes, r.err))
           /\ IF ReadStops(r.err)
              THEN /\ ret' = r.err
                   /\ pc' = "done"
                   /\ UNCHANGED <<i, result>>
              ELSE /\ result' = AppendNodes(result, r.nodes)
                   /\ i' = NextIndex(i)
                   /\ UNCHANGED <<pc, ret>>
    /\ UNCHANGED <<helpers, pipeline, err, sent, history>>

\* the end of the read loop: if len(result) == 0 { return nil }
CheckInput ==
    /\ pc = "read"
    /\ i > Len(Inputs)
    /\ IF NoInput(result)
       THEN /\ ret' = Nil
            /\ pc' = "done"
            /\ UNCHANGED i
       ELSE /\ pc' = "filter"
            /\ i' = 1
            /\ UNCHANGED ret
    /\ UNCHANGED <<helpers, pipeline, result, err, calls, sent, history>>

\* one iteration of: for i := range p.Filters
ApplyFilter ==
    /\ pc = "filter"
    /\ i <= Len(Filters)
    /\ LET op  == Filters[i]
           arg == result
           r   == Filter(op, i, arg)
       IN  /\ calls' = Append(calls, Call("Filter", i, arg, r.nodes, r.err))
           /\ sent' = IF op.impl = "ContainerFilter" /\ RunFn(op.fn, Stdin(arg)).started
                      THEN Append(sent, [stage |-> i, input |-> arg, stdin |-> Stdin(arg)])
                      ELSE sent
           /\ result' = FilterResult(result, r.nodes)
           /\ err' = r.err
           /\ IF FilterStops(r.nodes, r.err)
              THEN /\ ret' = FilterReturn(r.err)
                   /\ pc' = "done"
                   /\ UNCHANGED i
              ELSE /\ i' = NextIndex(i)
                   /\ UNCHANGED <<pc, ret>>
    /\ UNCHANGED <<helpers, pipeline, history>>

\* the end of the filter loop
FiltersDone ==
    /\ pc = "filter"
    /\ i > Len(Filters)
    /\ pc' = "write"
    /\ i' = 1
    /\ UNCHANGED <<helpers, pipeline, result, err, ret, calls, sent, history>>

\* one iteration of: for _, o := range p.Outputs
WriteOutput ==
    /\ pc = "write"
    /\ i <= Len(Outputs)
    /\ LET e == Write(Outputs[i], i, result)
       IN  /\ calls' = Append(calls, Call("Write", i, result, << >>, e))
           /\ IF WriteStops(e)
              THEN /\ ret' = e
                   /\ pc' = "done"
                   /\ UNCHANGED i
              ELSE /\ i' = NextIndex(i)
                   /\ UNCHANGED <<pc, ret>>
    /\ UNCHANGED <<helpers, pipeline, result, err, sent, history>>

\* the end of the write loop: return nil
ReturnNil ==
    /\ pc = "write"
    /\ i > Len(Outputs)
    /\ ret' = Nil
    /\ pc' = "done"
    /\ UNCHANGED <<helpers, pipeline, i, result, err, calls, sent, history>>

\* the caller calls p.Execute() again on the same Pipeline value
ExecuteAgain ==
    /\ pc = "done"
    /\ run < MaxRuns
    /\ run' = run + 1
    /\ prevCalls' = calls
    /\ prevRet' = ret
    /\ pc' = "read"
    /\ i' = 1
    /\ result' = FreshResult(result)
    /\ err' = Nil
    /\ ret' = Nil
    /\ calls' = << >>
    /\ sent' = << >>
    /\ UNCHANGED <<helpers, pipeline>>

Execute ==
    \/ ReadInput
    \/ CheckInput
    \/ ApplyFilter
    \/ FiltersDone
    \/ WriteOutput
    \/ ReturnNil

Next == Execute

NextAgain == Execute \/ ExecuteAgain

\* one Execute run of a Pipeline of in-process components
Spec == Init /\ [][Next]_vars

\* one Execute run of a Pipeline of ContainerFilter stages
SpecFn == InitFn /\ [][Next]_vars

\* repeated Execute runs of one Pipeline
SpecAgain == InitFew /\ [][NextAgain]_vars

\* ============================================================ properties
IsRead(c) == c.op = "Read"

IsFilter(c) == c.op = "Filter"

IsWrite(c) == c.op = "Write"

ReadCalls == SelectSeq(calls, IsRead)

FilterCalls == SelectSeq(calls, IsFilter)

WriteCalls == SelectSeq(calls, IsWrite)

Last(s) == s[Len(s)]

\* the concatenation of the results the Read calls of this run returned
RECURSIVE ConcatOut(_)
ConcatOut(cs) ==
    IF cs = << >> THEN << >> ELSE Head(cs).out \o ConcatOut(Tail(cs))

\* the concatenation of what the configured Inputs return, in source order
RECURSIVE ConcatNodes(_)
ConcatNodes(rs) ==
    IF rs = << >> THEN << >> ELSE Head(rs).nodes \o ConcatNodes(Tail(rs))

NoReaderFails == \A k \in 1..Len(Inputs) : ~Inputs[k].fails

\* C1: when the concatenation of all Inputs' Read results is empty (zero
\* Inputs included) and no Read returns an error, no Filter and no Writer
\* is ever invoked, the run never enters the filter or write phase, and
\* Execute returns nil after reading every Input.
C1_EmptyInputShortCircuit ==
    (NoReaderFails /\ ConcatNodes(Inputs) = << >>) =>
        /\ FilterCalls = << >>
        /\ WriteCalls = << >>
        /\ pc \in {"read", "done"}
        /\ (pc = "done" => ret = Nil /\ Len(calls) = Len(Inputs))

\* an empty-result Input was read, filters and writers are configured, and
\* Execute has returned
C1_Witness ==
    /\ pc = "done"
    /\ NoReaderFails
    /\ ConcatNodes(Inputs) = << >>
    /\ Len(Inputs) >= 1
    /\ Len(Filters) >= 1
    /\ Len(Outputs) >= 1

\* C2: a Filter call that returned a non-nil error (whatever collection came
\* with it) is the last component call of the run: no later filter and no
\* Writer is invoked, and Execute has returned exactly that error.
C2_FilterErrorAborts ==
    \A k \in 1..Len(calls) :
        (IsFilter(calls[k]) /\ calls[k].err # Nil) =>
            /\ k = Len(calls)
            /\ WriteCalls = << >>
            /\ pc = "done"
            /\ ret = calls[k].err

\* stage 2 of 3 returned an error together with a non-empty collection,
\* and a Writer is configured
C2_Witness ==
    /\ pc = "done"
    /\ Len(Filters) = 3
    /\ Len(Outputs) >= 1
    /\ Len(FilterCalls) = 2
    /\ Last(calls).pos = 2
    /\ Last(calls).err # Nil
    /\ Last(calls).out # << >>

\* C3: the Filter calls of a run are Filters[0], Filters[1], ... in that
\* order without a gap; the first is called with the concatenated read
\* result and every later one with exactly the collection its predecessor
\* returned; the write phase is entered only after every filter was called.
C3_FiltersChained ==
    LET fc == FilterCalls
    IN  /\ \A k \in 1..Len(fc) :
              /\ fc[k].pos = k
              /\ fc[k].arg = IF k = 1 THEN ConcatOut(ReadCalls) ELSE fc[k - 1].out
        /\ Len(fc) <= Len(Filters)
        /\ (pc = "filter" => Len(fc) = i - 1)
        /\ (pc = "write" => Len(fc) = Len(Filters))

\* three filters ran and each changed the collection it was given
C3_Witness ==
    /\ Len(FilterCalls) = 3
    /\ \A k \in 1..3 : FilterCalls[k].out # FilterCalls[k].arg
    /\ pc = "write"

\* C4: a Filter call that returned an empty collection with a nil error is
\* the last component call of the run: Execute has returned nil, no later
\* filter and no Writer is invoked, and no Write call ever receives an empty
\* collection.
C4_EmptyFilterResultStops ==
    /\ \A k \in 1..Len(calls) :
          (IsFilter(calls[k]) /\ calls[k].out = << >> /\ calls[k].err = Nil) =>
              /\ k = Len(calls)
              /\ WriteCalls = << >>
              /\ pc = "done"
              /\ ret = Nil
    /\ \A k \in 1..Len(calls) : IsWrite(calls[k]) => calls[k].arg # << >>

\* the first of several filters emptied the collection; a Writer is configured
C4_Witness ==
    /\ pc = "done"
    /\ Len(Filters) >= 2
    /\ Len(Outputs) >= 1
    /\ Len(FilterCalls) = 1
    /\ Last(calls).op = "Filter"
    /\ Last(calls).out = << >>
    /\ Last(calls).err = Nil

\* the collection the write phase receives: the last filter's result, or
\* the concatenated input when no filter is configured
FinalCollection ==
    IF FilterCalls = << >> THEN ConcatOut(ReadCalls) ELSE Last(FilterCalls).out

\* C5: the Write calls of a run are Outputs[0], Outputs[1], ... in that order,
\* each exactly once and each with the final collection; a Write call that
\* returned an error is the last call of the run and Execute has returned
\* that error, the earlier Outputs having been written.
C5_WritesInOrder ==
    LET wc == WriteCalls
    IN  /\ \A k \in 1..Len(wc) :
              /\ wc[k].pos = k
              /\ wc[k].arg = FinalCollection
              /\ (wc[k].err # Nil =>
                     /\ k = Len(wc)
                     /\ pc = "done"
                     /\ ret = wc[k].err)
        /\ Len(wc) <= Len(Outputs)
        /\ (pc = "write" => Len(wc) = i - 1)

\* the second Output failed after the first was written, and the collection
\* written is a filter's result that differs from the input
C5_Witness ==
    /\ pc = "done"
    /\ Len(WriteCalls) = 2
    /\ WriteCalls[1].err = Nil
    /\ WriteCalls[2].err # Nil
    /\ FilterCalls # << >>
    /\ FinalCollection # ConcatOut(ReadCalls)

NoError(cs) == \A k \in 1..Len(cs) : cs[k].err = Nil

\* all inputs read, all filters applied in order, all outputs written
FullyCompleted ==
    /\ NoError(calls)
    /\ ret = Nil
    /\ Len(ReadCalls) = Len(Inputs)
    /\ Len(FilterCalls) = Len(Filters)
    /\ Len(WriteCalls) = Len(Outputs)

\* the run stopped at its first failing call: nothing was called after it
StoppedAtFailure ==
    /\ calls # << >>
    /\ Last(calls).err # Nil
    /\ NoError(SubSeq(calls, 1, Len(calls) - 1))
    /\ ret = Last(calls).err

\* the run stopped quietly at an empty collection: the read result was
\* empty, or the filter called last returned an empty collection; nothing was
\* written
StoppedAtEmpty ==
    /\ NoError(calls)
    /\ ret = Nil
    /\ WriteCalls = << >>
    /\ Len(ReadCalls) = Len(Inputs)
    /\ \/ FilterCalls = << >> /\ ConcatOut(ReadCalls) = << >>
       \/ FilterCalls # << >> /\ Last(calls).op = "Filter" /\ Last(calls).out = << >>

\* C6 as stated: a run that has ended either fully completed or stopped at
\* its first failure.
C6_TwoWaysOnly ==
    pc = "done" => (FullyCompleted \/ StoppedAtFailure)

\* C6 as amended: a run that has ended either fully completed, or stopped at
\* its first failure with nothing called after it, or stopped without an
\* error at an empty collection with nothing written; in none of them is a
\* Write attempted after a failing call.
C6_ThreeWays ==
    /\ pc = "done" => (FullyCompleted \/ StoppedAtFailure \/ StoppedAtEmpty)
    /\ \A k \in 1..Len(calls) : calls[k].err # Nil => k = Len(calls)

\* a run with filters and writers configured that ended without an error
\* although not every filter and writer was called
C6_Witness ==
    /\ pc = "done"
    /\ StoppedAtEmpty
    /\ ~FullyCompleted
    /\ FilterCalls # << >>
    /\ Len(Outputs) >= 1

\* C7: a component call that returned a non-nil error ends the run and
\* Execute has returned that very error value; and whenever Execute's return
\* value is non-nil it is the error of the component call made last.
C7_ErrorsSurfaceUnchanged ==
    /\ \A k \in 1..Len(calls) :
          calls[k].err # Nil =>
              /\ k = Len(calls)
              /\ pc = "done"
              /\ ret = calls[k].err
    /\ ret # Nil => (calls # << >> /\ ret = Last(calls).err)
    /\ (pc = "done" /\ ret = Nil) => NoError(calls)

\* a filter failed after reads and an earlier filter had succeeded
C7_Witness ==
    /\ pc = "done"
    /\ ret # Nil
    /\ Last(calls).op = "Filter"
    /\ Last(calls).pos = 2
    /\ ret = ErrOf("Filter", 2)

\* C8: once the read phase has ended without a Read error, every Input has
\* been read exactly once, in source order, and the collection handed to
\* the first filter is the concatenation of the Inputs' results in that
\* order; an Input with an empty result does not end the reading.
C8_ReadConcatenates ==
    (pc # "read" /\ NoError(ReadCalls)) =>
        /\ Len(ReadCalls) = Len(Inputs)
        /\ \A k \in 1..Len(ReadCalls) :
              /\ ReadCalls[k].pos = k
              /\ ReadCalls[k].out = Inputs[k].nodes
        /\ (FilterCalls # << >> => FilterCalls[1].arg = ConcatNodes(Inputs))
        /\ (pc = "filter" /\ i = 1 => result = ConcatNodes(Inputs))

\* two Inputs with different non-empty results were read and a filter was
\* called with their concatenation
C8_Witness ==
    /\ Len(Inputs) = 2
    /\ Inputs[1].nodes = <<Stale>>
    /\ Inputs[2].nodes = <<Deployment, Service>>
    /\ FilterCalls # << >>
    /\ FilterCalls[1].arg = <<Stale, Deployment, Service>>

IsPrefix(s, t) == Len(s) <= Len(t) /\ s = SubSeq(t, 1, Len(s))

\* C9: Execute never changes Inputs, Filters or Outputs; and a later run of
\* the same Pipeline makes the same component calls with the same arguments
\* as the run before it, and returns the same value.
C9_RunsIndependent ==
    /\ [][pipeline' = pipeline]_vars
    /\ [](run >= 2 => IsPrefix(calls, prevCalls))
    /\ []((run >= 2 /\ pc = "done") => (calls = prevCalls /\ ret = prevRet))

\* a second run has ended after reading, filtering and writing a collection
\* that the previous run left non-empty
C9_Witness ==
    /\ run = 2
    /\ pc = "done"
    /\ result # << >>
    /\ FilterCalls # << >>
    /\ WriteCalls # << >>

\* the index annotation as an integer (-1 when absent or not a position)
Atoi(str, n) ==
    IF \E k \in 0..n : Itoa(k) = str
    THEN CHOOSE k \in 0..n : Itoa(k) = str
    ELSE -1

\* C10: in every envelope a ContainerFilter stage sent, the items are the
\* collection handed to the stage, and item k (zero-based) carries the index
\* annotation k: the values are unique and are exactly 0..n-1, whatever
\* index annotations the items carried before.
C10_EnvelopeIndexDense ==
    \A e \in 1..Len(sent) :
        LET items == Decode(sent[e].stdin)
            n     == Len(sent[e].input)
        IN  /\ Len(items) = n
            /\ \A k \in 1..n :
                  /\ Atoi(items[k].index, n) = k - 1
                  /\ items[k].name = sent[e].input[k].name
            /\ {Atoi(items[k].index, n) : k \in 1..n} = 0..(n - 1)

\* a second stage received items whose index annotations, left by the
\* first stage's function, did not match their positions
C10_Witness ==
    \E e \in 1..Len(sent) :
        /\ sent[e].stage = 2
        /\ \E k \in 1..Len(sent[e].input) :
              /\ sent[e].input[k].index # ""
              /\ sent[e].input[k].index # Itoa(k - 1)
        /\ Cardinality({sent[e].input[k].index : k \in 1..Len(sent[e].input)})
               < Len(sent[e].input)

\* the collection without its index annotations
Content(items) == [k \in 1..Len(items) |-> [name |-> items[k].name, kind |-> items[k].kind]]

\* the Filter calls made on stages whose external function is fn
CallsOfFn(fn) ==
    { k \in 1..Len(calls) : IsFilter(calls[k]) /\ Filters[calls[k].pos].fn = fn }

\* C11: decoding an envelope that a stage encoded gives back the collection
\* handed to the stage, equal in length, order and content, every item
\* carrying its position as index annotation; and a stage whose function
\* echoes its input returns its input plus those index annotations.
C11_EncodeDecodeRoundTrip ==
    /\ \A e \in 1..Len(sent) :
          LET items == Decode(sent[e].stdin)
          IN  /\ sent[e].input # << >>
              /\ Len(items) = Len(sent[e].input)
              /\ Content(items) = Content(sent[e].input)
              /\ \A k \in 1..Len(items) : items[k].index = Itoa(k - 1)
    /\ \A k \in CallsOfFn("cat") :
          /\ calls[k].err = Nil
          /\ Content(calls[k].out) = Content(calls[k].arg)
          /\ \A j \in 1..Len(calls[k].out) : calls[k].out[j].index = Itoa(j - 1)

\* an echoing stage was handed three items, one with an index annotation
\* that is not its position and two without any
C11_Witness ==
    \E k \in CallsOfFn("cat") :
        /\ Len(calls[k].arg) = 3
        /\ calls[k].arg[1].index = "1"
        /\ calls[k].arg[2].index = ""
        /\ calls[k].out # calls[k].arg

\* the functions whose subprocess cannot be started, exits non-zero, or
\* emits output that is not a ResourceList envelope
FailingFns == {"nostart", "exit1", "garbage"}

\* C12: a Filter call on a stage whose subprocess cannot be started, exits
\* non-zero or emits a malformed envelope returns an error and no items; the
\* stage is called once and at most one envelope is sent for it (no retry);
\* the call is the last of the run: no later filter and no Writer is invoked
\* and Execute has returned that error.
C12_SubprocessFailureAborts ==
    \A k \in 1..Len(calls) :
        (IsFilter(calls[k]) /\ Filters[calls[k].pos].fn \in FailingFns) =>
            /\ calls[k].err # Nil
            /\ calls[k].out = << >>
            /\ result = << >>
            /\ Cardinality({j \in 1..Len(calls) :
                               IsFilter(calls[j]) /\ calls[j].pos = calls[k].pos}) = 1
            /\ Cardinality({e \in 1..Len(sent) : sent[e].stage = calls[k].pos}) <= 1
            /\ k = Len(calls)
            /\ WriteCalls = << >>
            /\ pc = "done"
            /\ ret = calls[k].err

\* the first of two stages emitted a malformed envelope; a Writer is
\* configured
C12_Witness ==
    /\ pc = "done"
    /\ Len(Filters) = 2
    /\ Len(Outputs) >= 1
    /\ Filters[1].fn = "garbage"
    /\ Len(FilterCalls) = 1
    /\ ret = ErrOf("decode", 1)

\* ====================================================== GetContainerName
\* Strings that the code takes apart are sequences of characters.
MaxStrLen == 4       \* len(apiVersion) is at most this

Chars == {"g", ".", "/", ":"}

\* variant: the string is not split
NoSplit(s, sep) == s

\* strings.Split(s, sep)[0]: the part of s before the first sep
RECURSIVE SplitFirst(_, _)
SplitFirst(s, sep) ==
    IF s = << >> \/ Head(s) = sep THEN << >>
    ELSE <<Head(s)>> \o SplitFirst(Tail(s), sep)

\* strings.Contains(s, c)
Contains(s, c) == \E k \in 1..Len(s) : s[k] = c

\* the image reference of a document, or the empty string
GetContainerName(n) ==
    IF n.hasContainer THEN n.container
    ELSE IF Contains(SplitFirst(n.apiVersion, "/"), ".") THEN n.apiVersion
    ELSE << >>

\* documents: an apiVersion, with or without the
\* kyaml.kustomize.dev/container annotation
NodeChoices ==
    { [apiVersion |-> a, hasContainer |-> FALSE, container |-> << >>] :
          a \in SeqUpTo(Chars, MaxStrLen) }
    \cup
    { [apiVersion |-> a, hasContainer |-> TRUE, container |-> c] :
          a \in SeqUpTo(Chars, MaxStrLen),
          c \in { <<"g">>, <<"g", ".", "/", "g", ":">> } }

\* no Pipeline is running
Idle ==
    /\ Inputs = << >>
    /\ Filters = << >>
    /\ Outputs = << >>
    /\ i = 1
    /\ result = << >>
    /\ err = Nil
    /\ ret = Nil
    /\ calls = << >>
    /\ sent = << >>
    /\ run = 1
    /\ prevCalls = << >>
    /\ prevRet = Nil

InitName ==
    /\ Idle
    /\ pc = "resolve"
    /\ node \in NodeChoices
    /\ containerName = << >>
    /\ environ = << >>
    /\ instance = NoInstance
    /\ cmd = NoCmd

\* c := GetContainerName(n)
GetName ==
    /\ pc = "resolve"
    /\ containerName' = GetContainerName(node)
    /\ pc' = "resolved"
    /\ UNCHANGED <<pipeline, i, result, err, ret, calls, sent, history,
                   node, environ, instance, cmd>>

NextName == GetName

\* GetContainerName applied to a document
SpecName == InitName /\ [][NextName]_vars

\* a '.' occurs in s with no '/' before it
DottedPrefix(s) ==
    \E p \in 1..Len(s) : s[p] = "." /\ \A q \in 1..(p - 1) : s[q] # "/"

\* C13: GetContainerName gives a result for every document, and the result
\* is the container annotation's value whenever the annotation is present,
\* whatever the apiVersion; otherwise the whole apiVersion when a '.' occurs
\* before its first '/'; otherwise the empty string.
C13_ContainerNamePriority ==
    /\ node \in NodeChoices
    /\ pc = "resolve" => ENABLED GetName
    /\ pc = "resolved" =>
          /\ node.hasContainer => containerName = node.container
          /\ (~node.hasContainer /\ DottedPrefix(node.apiVersion)) =>
                 containerName = node.apiVersion
          /\ (~node.hasContainer /\ ~DottedPrefix(node.apiVersion)) =>
                 containerName = << >>

\* a document without the annotation whose apiVersion has its only '.'
\* after the first '/' was resolved to the empty string
C13_Witness ==
    /\ pc = "resolved"
    /\ ~node.hasContainer
    /\ node.apiVersion = <<"g", "/", "g", ".">>
    /\ containerName = << >>

\* ============================================================ getCommand
MaxEnv == 2          \* number of host environment variables is at most this

\* a character sequence as a string
RECURSIVE Str(_)
Str(cs) == IF cs = << >> THEN "" ELSE Head(cs) \o Str(Tail(cs))

\* host environment variables: a non-empty name without '=' and a value
HostVars ==
    [name : {<<"K">>, <<"K", "T">>},
     value : {<< >>, <<"F">>, <<"F", "=", "O">>}]

\* os.Environ(): one "name=value" entry per variable, in enumeration order
Environ(host) ==
    [k \in 1..Len(host) |-> host[k].name \o <<"=">> \o host[k].value]

\* variant: the part of s before the last sep
RECURSIVE SplitLast(_, _)
SplitLast(s, sep) ==
    IF ~Contains(s, sep) THEN s
    ELSE IF s[Len(s)] = sep THEN SubSeq(s, 1, Len(s) - 1)
    ELSE SplitLast(SubSeq(s, 1, Len(s) - 1), sep)

\* variant: the entry is split at its last '='
EnvNameLast(pair) == SplitLast(pair, "=")

\* the name of an os.Environ() entry
EnvName(pair) == SplitFirst(pair, "=")

\* "-e", name for every entry of the environment
RECURSIVE EnvFlags(_)
EnvFlags(pairs) ==
    IF pairs = << >> THEN << >>
    ELSE <<"-e", Str(EnvName(Head(pairs)))>> \o EnvFlags(Tail(pairs))

\* the fixed security profile
RunArgs ==
    <<"run", "--rm", "-i", "-a", "STDIN", "-a", "STDOUT", "-a", "STDERR",
      "--network", "none", "--user", "nobody",
      "--security-opt=no-new-privileges">>

\* exec.Command("docker", args...) with the host environment
getCommand(c, host) ==
    [Args |-> <<"docker">> \o RunArgs \o EnvFlags(Environ(host))
                  \o <<c.Image>> \o c.args,
     Env  |-> Environ(host)]

InstanceChoices ==
    [Image : {"example.com:version", "gcr.io/foo/bar:something"},
     args : { << >>,
              <<"sed", "s/Deployment/StatefulSet/g">>,
              <<"sh", "-c", "cat <&0">> }]

InitCmd ==
    /\ Idle
    /\ pc = "command"
    /\ node = NoNode
    /\ containerName = << >>
    /\ environ \in SeqUpTo(HostVars, MaxEnv)
    /\ instance \in InstanceChoices
    /\ cmd = NoCmd

\* cmd, err := instance.getCommand()
GetCommand ==
    /\ pc = "command"
    /\ cmd' = getCommand(instance, environ)
    /\ pc' = "commanded"
    /\ UNCHANGED <<pipeline, i, result, err, ret, calls, sent, history,
                   node, containerName, environ, instance>>

NextCmd == GetCommand

\* getCommand applied to a ContainerFilter in a host environment
SpecCmd == InitCmd /\ [][NextCmd]_vars

\* C14: the arguments after the runtime's name are the fourteen fixed
\* arguments, then "-e" and the variable's name for every host variable in
\* enumeration order, then the image, then the override arguments and
\* nothing else; and the command's environment has an entry name=value for
\* every host variable.
C14_CommandArguments ==
    pc = "commanded" =>
        LET a == Tail(cmd.Args)
            n == Len(environ)
        IN  /\ cmd.Args[1] = "docker"
            /\ Len(a) = 14 + 2 * n + 1 + Len(instance.args)
            /\ SubSeq(a, 1, 14) =
                   <<"run", "--rm", "-i", "-a", "STDIN", "-a", "STDOUT", "-a",
                     "STDERR", "--network", "none", "--user", "nobody",
                     "--security-opt=no-new-privileges">>
            /\ \A k \in 1..n :
                  /\ a[14 + 2 * k - 1] = "-e"
                  /\ a[14 + 2 * k] = Str(environ[k].name)
            /\ a[14 + 2 * n + 1] = instance.Image
            /\ SubSeq(a, 14 + 2 * n + 2, Len(a)) = instance.args
            /\ Len(cmd.Env) = n
            /\ \A k \in 1..n :
                  cmd.Env[k] = environ[k].name \o <<"=">> \o environ[k].value

\* a command was built for two host variables, one with a value that
\* contains '=', and with override arguments
C14_Witness ==
    /\ pc = "commanded"
    /\ Len(environ) = 2
    /\ environ[1] = [name |-> <<"K", "T">>, value |-> <<"F", "=", "O">>]
    /\ environ[2].name = <<"K">>
    /\ instance.args # << >>
    /\ Len(cmd.Args) = 22

\* ================================================ ContainerFilter output
\* the items an external function emits for the stamped items it was sent
Emitted(fn, items) ==
    CASE fn = "cat"     -> items
      [] fn = "sed"     -> [k \in 1..Len(items) |->
                               IF items[k].kind = "Deployment"
                               THEN [items[k] EXCEPT !.kind = "StatefulSet"]
                               ELSE items[k]]
      [] fn = "reverse" -> [k \in 1..Len(items) |-> items[Len(items) + 1 - k]]
      [] fn = "drop"    -> [k \in 1..(Len(items) - 1) |-> items[k + 1]]
      [] OTHER          -> [k \in 1..(Len(items) + 1) |->
                               IF k = 1 THEN items[Len(items)] ELSE items[k - 1]]

\* the collection handed to a stage, each item carrying its position
Positioned(input) ==
    [k \in 1..Len(input) |->
        [name |-> input[k].name, kind |-> input[k].kind, index |-> Itoa(k - 1)]]

\* C15: the result of a stage whose function emitted an envelope is exactly
\* the emitted items in the emitted order, with the index annotations the
\* function left on them: reordered items stay reordered, a deleted item is
\* not re-inserted, a duplicated item stays duplicated, and no index
\* annotation is removed or renumbered.
C15_OutputIsEmittedItems ==
    \A k \in 1..Len(calls) :
        (IsFilter(calls[k]) /\ Filters[calls[k].pos].fn \notin FailingFns) =>
            /\ calls[k].err = Nil
            /\ calls[k].out = Emitted(Filters[calls[k].pos].fn, Positioned(calls[k].arg))
            /\ (Filters[calls[k].pos].fn = "sed" =>
                   /\ Len(calls[k].out) = Len(calls[k].arg)
                   /\ \A j \in 1..Len(calls[k].out) :
                         /\ calls[k].out[j].name = calls[k].arg[j].name
                         /\ calls[k].out[j].index = Itoa(j - 1))

\* a stage whose function reversed three items returned them reversed, the
\* first one carrying index annotation 2
C15_Witness ==
    \E k \in CallsOfFn("reverse") :
        /\ Len(calls[k].arg) = 3
        /\ calls[k].out[1].index = "2"
        /\ calls[k].out[1].name = calls[k].arg[3].name
        /\ calls[k].out[3].index = "0"

\* ============================================== phases of one Execute run
PhaseOf(c) == CASE c.op = "Read" -> 1 [] c.op = "Filter" -> 2 [] OTHER -> 3

\* C16: in the sequence of component calls of a run every Read call comes
\* before every Filter call and every Filter call before every Write call;
\* within a phase the components are called in increasing position, so none
\* is called twice; and while Execute is in a phase no call of a later phase
\* has been made.
C16_PhasesDoNotOverlap ==
    /\ \A j, k \in 1..Len(calls) :
          j < k =>
              /\ PhaseOf(calls[j]) <= PhaseOf(calls[k])
              /\ (calls[j].op = calls[k].op => calls[j].pos < calls[k].pos)
    /\ pc = "read" => (FilterCalls = << >> /\ WriteCalls = << >>)
    /\ pc = "filter" => (WriteCalls = << >> /\ Len(ReadCalls) = Len(Inputs))
    /\ pc = "write" => (Len(ReadCalls) = Len(Inputs) /\ Len(FilterCalls) = Len(Filters))

\* a run made two Read, three Filter and two Write calls
C16_Witness ==
    /\ pc = "done"
    /\ Len(ReadCalls) = 2
    /\ Len(FilterCalls) = 3
    /\ Len(WriteCalls) = 2

\* every component call returns, so a run that can take a step takes it
SpecFair == InitFew /\ [][Next]_vars /\ WF_vars(Next)

PhaseRank(p) ==
    CASE p = "read" -> 1 [] p = "filter" -> 2 [] p = "write" -> 3 [] OTHER -> 4

\* C17: every run reaches the point where Execute has returned, having made
\* at most len(Inputs) + len(Filters) + len(Outputs) component calls; no
\* step goes back to an earlier phase or to an earlier element of a loop.
C17_Terminates ==
    /\ <>(pc = "done")
    /\ [](Len(calls) <= Len(Inputs) + Len(Filters) + Len(Outputs))
    /\ [][/\ PhaseRank(pc') >= PhaseRank(pc)
          /\ (pc' = pc => i' > i)]_vars

\* a run returned after calling every one of its five components
C17_Witness ==
    /\ pc = "done"
    /\ Len(calls) = 5
    /\ Len(calls) = Len(Inputs) + Len(Filters) + Len(Outputs)

\* C18: every Filter call and every Write call of a run is made with a
\* collection of at least one item, and while Execute is in the filter or
\* the write phase its current collection is not empty.
C18_NeverCalledWithEmpty ==
    /\ \A k \in 1..Len(calls) :
          (IsFilter(calls[k]) \/ IsWrite(calls[k])) => Len(calls[k].arg) >= 1
    /\ pc \in {"filter", "write"} => Len(result) >= 1

\* a filter cut the collection down to a single item, which was then
\* handed to a further filter and to a Writer
C18_Witness ==
    /\ Len(FilterCalls) >= 2
    /\ Len(FilterCalls[1].arg) = 2
    /\ Len(FilterCalls[2].arg) = 1
    /\ WriteCalls # << >>
    /\ Len(WriteCalls[1].arg) = 1

\* C19: a Read call that returned an error is the last call of the run:
\* Execute has returned that error, only the Inputs up to that one were
\* read, no Filter and no Writer was invoked, and nothing of what the
\* earlier Inputs returned was handed on.
C19_ReadErrorAborts ==
    \A k \in 1..Len(calls) :
        (IsRead(calls[k]) /\ calls[k].err # Nil) =>
            /\ k = Len(calls)
            /\ calls[k].pos = k
            /\ \A j \in 1..k : IsRead(calls[j]) /\ calls[j].pos = j
            /\ FilterCalls = << >>
            /\ WriteCalls = << >>
            /\ pc = "done"
            /\ ret = calls[k].err

\* the second Input failed after the first had returned two items; filters
\* and writers are configured
C19_Witness ==
    /\ pc = "done"
    /\ Len(calls) = 2
    /\ calls[1].out = <<Deployment, Service>>
    /\ calls[2].err = ErrOf("Read", 2)
    /\ ret = ErrOf("Read", 2)
    /\ Len(Inputs) = 2
    /\ Len(Filters) >= 1
    /\ Len(Outputs) >= 1

\* C20: a Writer is invoked only after a non-empty read result and after
\* every configured filter returned a nil error and a non-empty collection;
\* and when Execute has returned nil after invoking a Writer, every Output
\* was invoked exactly once, in order, with the same final collection.
C20_WritersOnlyAfterSuccess ==
    /\ WriteCalls # << >> =>
          /\ NoError(ReadCalls)
          /\ Len(ReadCalls) = Len(Inputs)
          /\ ConcatOut(ReadCalls) # << >>
          /\ Len(FilterCalls) = Len(Filters)
          /\ \A k \in 1..Len(FilterCalls) :
                FilterCalls[k].err = Nil /\ FilterCalls[k].out # << >>
    /\ (pc = "done" /\ ret = Nil /\ WriteCalls # << >>) =>
          /\ Len(WriteCalls) = Len(Outputs)
          /\ \A k \in 1..Len(WriteCalls) :
                /\ WriteCalls[k].pos = k
                /\ WriteCalls[k].arg = WriteCalls[1].arg
                /\ WriteCalls[k].arg = result

\* Execute returned nil after two Writers received the result of three
\* filters
C20_Witness ==
    /\ pc = "done"
    /\ ret = Nil
    /\ Len(WriteCalls) = 2
    /\ Len(FilterCalls) = 3
    /\ WriteCalls[2].arg = FilterCalls[3].out

====
